---- MODULE Spec2Model ----
(***************************************************************************)
(* Verification model of four pieces of the perspective viewer plugins:    *)
(*   - selectionListener  (datagrid/event_handlers/row_select_click.js)    *)
(*   - save               (datagrid, second half of row_select_click.js)   *)
(*   - table_cell_style_listener (datagrid/style_handlers/table_cell)      *)
(*   - enforceContainerBoundaries (d3fc/legend/styling/enableDragging.js)  *)
(* Each piece has its own specification over its own variables; the other  *)
(* variables are left unchanged by it.                                     *)
(***************************************************************************)
EXTENDS Integers, Sequences, FiniteSets, TLC

VARIABLES
    selected_rows_map,  \* Map regularTable -> id key sequence
    draws,              \* number of regularTable.draw calls started
    dispatched,         \* 'perspective-select' events dispatched on the viewer
    ev_handled,         \* event.handled of the click events created so far
    inflight,           \* suspended selectionListener invocations
    last_click          \* arguments of the most recent selectionListener call

selVars == <<selected_rows_map, draws, dispatched, ev_handled, inflight, last_click>>

VARIABLES
    column_types,       \* this._column_types
    row_header_types,   \* this._row_header_types
    plugins,            \* regularTable[PRIVATE_PLUGIN_SYMBOL], as the style listener reads it
    cell_meta,          \* what getMeta yields for each cell of the row
    cells,              \* style and classList of each cell
    before_pass,        \* cells as they were when the last pass started
    pass                \* bookkeeping of the passes

styleVars == <<column_types, row_header_types, plugins, cell_meta, cells, before_pass, pass>>

VARIABLES
    regular_table,      \* whether this.regular_table is set
    plugin_store,       \* datagrid[PRIVATE_PLUGIN_SYMBOL], as save reads it
    size_overrides,     \* what save_column_size_overrides yields
    is_scroll_lock,     \* this._is_scroll_lock
    is_edit_mode,       \* this._is_edit_mode
    tokens              \* tokens returned by save since the last change of the state

saveVars == <<regular_table, plugin_store, size_overrides, is_scroll_lock, is_edit_mode, tokens>>

VARIABLES
    legend,             \* bounding rect of the legend node
    chart,              \* bounding rect of the chart container
    resize_registered,  \* whether the window resize handler is installed
    last_drag           \* arguments and result of the last enforceContainerBoundaries call

dragVars == <<legend, chart, resize_registered, last_drag>>

vars == <<selVars, styleVars, saveVars, dragVars>>

(***************************************************************************)
(* Row selection: selectionListener                                        *)
(***************************************************************************)

\* bounds
NumRows == 2
MaxClicks == 3
MaxInFlight == 2

regularTable == "t1"

\* id key sequences of the data rows (row paths), viewport origin y0 = 0
AllRowIds == << <<1>>, <<1, 2>>, <<2>>, <<>>, <<2, 1>> >>

ids == [i \in 0..(NumRows - 1) |-> AllRowIds[i + 1]]

Columns == {0}
Buttons == {1, 2, 3}

NoMetaTarget == [has_meta |-> FALSE, x |-> 0, y |-> 0, y0 |-> 0]

\* event.target values: an element without metadata, a column header cell
\* (y = -1) and the data cells
Targets ==
    {NoMetaTarget}
    \cup {[has_meta |-> TRUE, x |-> x, y |-> y, y0 |-> 0] :
              x \in Columns, y \in (-1)..(NumRows - 1)}

ClickInputs ==
    [selectable : BOOLEAN, handled : BOOLEAN, which : Buttons, target : Targets]

NoClick == [selectable |-> FALSE, handled |-> FALSE, which |-> 1, target |-> NoMetaTarget]

\* getCellConfig(this, y, x).config.filter : the filter description derived
\* from the clicked cell's position
getCellConfigFilter(y, x) == <<y, x>>

MapHas(m, k) == k \in DOMAIN m
MapSet(m, k, v) == [t \in DOMAIN m \cup {k} |-> IF t = k THEN v ELSE m[t]]
MapDelete(m, k) == [t \in DOMAIN m \ {k} |-> m[t]]
EmptyMap == [t \in {} |-> <<>>]

\* lines 18-30: the listener returns before touching anything
EarlyReturnNoButton(in) ==
    \/ ~in.selectable
    \/ in.handled
    \/ ~in.target.has_meta
    \/ ~(in.target.y >= 0)

EarlyReturn(in) ==
    \/ ~in.selectable
    \/ in.handled
    \/ in.which # 1
    \/ ~in.target.has_meta
    \/ ~(in.target.y >= 0)

\* line 29: this._ids[meta.y - meta.y0]
RowId(meta) == ids[meta.y - meta.y0]

\* lines 32-34: selected.reduce((agg, x, i) => agg && x === id[i], true)
key_match(m, id) ==
    /\ MapHas(m, regularTable)
    /\ \A i \in 1..Len(m[regularTable]) :
           i <= Len(id) /\ m[regularTable][i] = id[i]

is_deselect_nolen(m, id) ==
    MapHas(m, regularTable) /\ key_match(m, id)

\* lines 35-36
is_deselect(m, id) ==
    /\ MapHas(m, regularTable)
    /\ Len(id) = Len(m[regularTable])
    /\ key_match(m, id)

IdleSlot == [pc |-> "idle", ev |-> 0, target |-> NoMetaTarget,
             is_deselect |-> FALSE, filter |-> <<>>]

Slots == 1..MaxInFlight

Quiescent == \A s \in Slots : inflight[s].pc = "idle"

SelInit ==
    /\ selected_rows_map = EmptyMap
    /\ draws = 0
    /\ dispatched = <<>>
    /\ ev_handled = <<>>
    /\ inflight = [s \in Slots |-> IdleSlot]
    /\ last_click = NoClick

\* The synchronous part of one selectionListener call (lines 18-42): the
\* guards, the update of selected_rows_map and the call that the first
\* await suspends on.
Start(in, s) ==
    /\ Len(ev_handled) < MaxClicks
    /\ inflight[s].pc = "idle"
    /\ last_click' = in
    /\ UNCHANGED <<styleVars, saveVars, dragVars>>
    /\ ev_handled' = Append(ev_handled, in.handled)
    /\ IF EarlyReturn(in)
       THEN UNCHANGED <<selected_rows_map, draws, dispatched, inflight>>
       ELSE LET id == RowId(in.target)
                d == is_deselect(selected_rows_map, id)
            IN  /\ selected_rows_map' =
                       IF d THEN MapDelete(selected_rows_map, regularTable)
                            ELSE MapSet(selected_rows_map, regularTable, id)
                /\ draws' = IF d THEN draws + 1 ELSE draws
                /\ inflight' = [inflight EXCEPT ![s] =
                       [pc |-> IF d THEN "await_draw" ELSE "await_config",
                        ev |-> Len(ev_handled) + 1,
                        target |-> in.target,
                        is_deselect |-> d,
                        filter |-> <<>>]]
                /\ UNCHANGED dispatched

\* a click arriving while no other invocation is suspended
ClickSeq ==
    /\ Quiescent
    /\ \E in \in ClickInputs : Start(in, 1)

\* a click arriving at any time
Click == \E in \in ClickInputs, s \in Slots : Start(in, s)

\* lines 42-46: getCellConfig resolved; regularTable.draw is called
ResumeConfig ==
    \E s \in Slots :
        /\ inflight[s].pc = "await_config"
        /\ inflight' = [inflight EXCEPT ![s].pc = "await_draw",
               ![s].filter = getCellConfigFilter(inflight[s].target.y, inflight[s].target.x)]
        /\ draws' = draws + 1
        /\ UNCHANGED <<selected_rows_map, dispatched, ev_handled, last_click>>
        /\ UNCHANGED <<styleVars, saveVars, dragVars>>

\* lines 46-57: draw resolved; event.handled is set and the event dispatched
ResumeDraw ==
    \E s \in Slots :
        /\ inflight[s].pc = "await_draw"
        /\ ev_handled' = [ev_handled EXCEPT ![inflight[s].ev] = TRUE]
        /\ dispatched' = Append(dispatched,
               [selected |-> ~inflight[s].is_deselect,
                filter |-> inflight[s].filter,
                ev |-> inflight[s].ev,
                target |-> inflight[s].target])
        /\ inflight' = [inflight EXCEPT ![s] = IdleSlot]
        /\ UNCHANGED <<selected_rows_map, draws, last_click>>
        /\ UNCHANGED <<styleVars, saveVars, dragVars>>


(***************************************************************************)
(* Claims about selectionListener                                          *)
(***************************************************************************)

\* the map a sequential run holds after its i-th dispatched event
StoredAfter(i) ==
    IF i > 0 /\ dispatched[i].selected
    THEN MapSet(EmptyMap, regularTable, RowId(dispatched[i].target))
    ELSE EmptyMap

\* C1: with clicks handled one after the other, a primary click on a data
\* row whose id key is not the stored one is dispatched with selected = TRUE
\* and stores the key, a click on the stored row is dispatched with
\* selected = FALSE and an empty filter and removes the entry, and
\* consecutive events of one row alternate.
C1_RowSelectionToggles ==
    /\ \A i \in 1..Len(dispatched) :
          LET e == dispatched[i]
              prev == StoredAfter(i - 1)
              id == RowId(e.target)
          IN  /\ e.selected = ~(MapHas(prev, regularTable) /\ prev[regularTable] = id)
              /\ ~e.selected => e.filter = <<>>
              /\ (i > 1 /\ RowId(dispatched[i - 1].target) = id)
                     => e.selected = ~dispatched[i - 1].selected
    /\ Quiescent => selected_rows_map = StoredAfter(Len(dispatched))

\* three clicks on the row with key <<1, 2>> after the row with key <<1>>
\* was selected: true, true, false, true
C1_Witness ==
    /\ Quiescent
    /\ Len(dispatched) = 3
    /\ RowId(dispatched[1].target) = <<1>>
    /\ RowId(dispatched[2].target) = <<1, 2>>
    /\ RowId(dispatched[3].target) = <<1, 2>>
    /\ dispatched[2].selected
    /\ ~dispatched[3].selected

\* the precondition of C2, stated on the arguments of the call
GuardedClick(in) ==
    \/ ~in.selectable
    \/ in.handled
    \/ in.which # 1
    \/ ~in.target.has_meta
    \/ in.target.y < 0

\* C2: a call with a non-selectable viewer, a handled event, a non-primary
\* button, a target without metadata or a negative row index changes
\* neither selected_rows_map nor the draw count nor event.handled, suspends
\* nothing and dispatches nothing.
C2_GuardedClicksAreNoOps ==
    [][(Len(ev_handled') = Len(ev_handled) + 1 /\ GuardedClick(last_click'))
          => /\ selected_rows_map' = selected_rows_map
             /\ draws' = draws
             /\ dispatched' = dispatched
             /\ inflight' = inflight
             /\ ev_handled' = Append(ev_handled, last_click'.handled)]_selVars

\* a middle-button click on a data row while a row is selected
C2_Witness ==
    /\ Len(ev_handled) >= 2
    /\ MapHas(selected_rows_map, regularTable)
    /\ last_click.which = 2
    /\ last_click.selectable
    /\ ~last_click.handled
    /\ last_click.target.has_meta
    /\ last_click.target.y >= 0
    /\ ~ev_handled[Len(ev_handled)]

\* C10: once every invocation has finished, the last dispatched event says
\* selected exactly when the map holds an entry for the table, and events
\* were dispatched in the order in which their invocations updated the map.
C10_EventsAgreeWithMap ==
    (Quiescent /\ Len(dispatched) > 0)
        => /\ dispatched[Len(dispatched)].selected = MapHas(selected_rows_map, regularTable)
           /\ \A i, j \in 1..Len(dispatched) :
                  i < j => dispatched[i].ev < dispatched[j].ev

(***************************************************************************)
(* Cell styling: table_cell_style_listener                                 *)
(***************************************************************************)

\* bounds
NumCells == 2
MaxEdits == 1
MaxPasses == 2

Types == {"integer", "float", "boolean", "string", "date", "datetime", "other"}
UndefinedType == "undefined"

\* the view shows one data column and one level of row headers; a type
\* table may lack the entry a cell asks for
DataColumns == {0}
RowHeaderLevels == {0}

TypeTables(D) == UNION {[K -> Types] : K \in SUBSET D}

\* names of the view's columns, by column index; the last two are scrolled
\* out of the viewport
ColumnNames == <<"price", "undefined", "volume">>
PluginKeys == {"price", "undefined"}
PluginConfigs == {[number_fg_mode |-> "bar"], [number_fg_mode |-> "color"]}
PluginStores == UNION {[K -> PluginConfigs] : K \in SUBSET PluginKeys}

\* getMeta(td): nothing, or metadata whose user value is null, undefined
\* or a value
MetaStates == {"absent", "null", "undefined", "value"}

CellIds == 1..NumCells

\* the cells of the snapshot in row-major order: every row is a row header
\* cell followed by the cell of the data column
tagName(c) == IF c % 2 = 1 THEN "TH" ELSE "TD"

\* regularTable.getMeta(td) for a cell that has metadata
getMeta(c) ==
    IF tagName(c) = "TH"
    THEN [x |-> -1, row_header_x |-> 1, column_header |-> <<>>, user |-> cell_meta[c]]
    ELSE [x |-> 0, row_header_x |-> 0,
          column_header |-> <<"", ColumnNames[1]>>, user |-> cell_meta[c]]

\* lines 18-24
get_psp_type(metadata) ==
    IF metadata.x >= 0
    THEN IF metadata.x \in DOMAIN column_types
         THEN column_types[metadata.x] ELSE UndefinedType
    ELSE IF (metadata.row_header_x - 1) \in DOMAIN row_header_types
         THEN row_header_types[metadata.row_header_x - 1] ELSE UndefinedType

\* lines 32-33: metadata.column_header?.[metadata.column_header?.length - 1];
\* an empty path yields undefined
HasColumnName(metadata) == Len(metadata.column_header) > 0
column_name(metadata) == metadata.column_header[Len(metadata.column_header)]

\* line 36: plugins[column_name]; a property key that is undefined is
\* converted to the string "undefined"
PluginKey(metadata) ==
    IF HasColumnName(metadata) THEN column_name(metadata) ELSE "undefined"

HasPlugin(metadata) == PluginKey(metadata) \in DOMAIN plugins
PluginOf(metadata) == plugins[PluginKey(metadata)]

is_numeric(type) == type = "integer" \/ type = "float"

\* the type-specific sub-rules: each writes both colors as a function of
\* the column's plugin config and the cell's metadata
cell_style_numeric(metadata) ==
    [bg |-> "",
     fg |-> IF metadata.user = "value"
               /\ ~(HasPlugin(metadata) /\ PluginOf(metadata).number_fg_mode = "bar")
            THEN "pos_fg_color" ELSE ""]

cell_style_boolean(metadata) ==
    [bg |-> "", fg |-> IF metadata.user = "value" THEN "pos_fg_color" ELSE ""]

cell_style_string(metadata) ==
    [bg |-> "", fg |-> IF metadata.user = "value" /\ HasPlugin(metadata) THEN "color" ELSE ""]

cell_style_datetime(metadata) ==
    [bg |-> IF metadata.user = "value" /\ HasPlugin(metadata) THEN "color" ELSE "", fg |-> ""]

\* classList.toggle(name, force)
toggle(classes, name, force) ==
    IF force THEN classes \cup {name} ELSE classes \ {name}

\* the row header sub-rule: header decoration only
cell_style_row_header(classes, metadata) ==
    toggle(classes, "psp-tree-label", metadata.user = "value")

TypeColorsKeep(type, metadata, old) ==
    IF is_numeric(type) THEN cell_style_numeric(metadata)
    ELSE IF type = "boolean" THEN cell_style_boolean(metadata)
    ELSE IF type = "string" THEN cell_style_string(metadata)
    ELSE IF type = "date" \/ type = "datetime" THEN cell_style_datetime(metadata)
    ELSE [bg |-> old.bg, fg |-> old.fg]

\* lines 39-50: the type dispatch
TypeColors(type, metadata, old) ==
    IF is_numeric(type) THEN cell_style_numeric(metadata)
    ELSE IF type = "boolean" THEN cell_style_boolean(metadata)
    ELSE IF type = "string" THEN cell_style_string(metadata)
    ELSE IF type = "date" \/ type = "datetime" THEN cell_style_datetime(metadata)
    ELSE [bg |-> "", fg |-> ""]

BoolTypeForceAnyValue(type, metadata) == type = "boolean"

\* line 54
BoolTypeForce(type, metadata) == type = "boolean" /\ metadata.user # "null"

AlignRightForceNoTh(is_th, numeric) == numeric

\* line 62
AlignRightForce(is_th, numeric) == ~is_th /\ numeric

\* line 63
AlignLeftForce(is_th, numeric) == is_th \/ ~numeric

\* line 66: plugin?.number_fg_mode === "bar" && is_numeric
BarForce(metadata, numeric) ==
    HasPlugin(metadata) /\ PluginOf(metadata).number_fg_mode = "bar" /\ numeric

\* lines 31-67: the loop body for one cell that has metadata
StyleCell(c, old) ==
    LET metadata == getMeta(c)
        type == get_psp_type(metadata)
        numeric == is_numeric(type)
        colors == TypeColors(type, metadata, old)
        is_th == tagName(c) = "TH"
        c1 == toggle(old.classes, "psp-bool-type", BoolTypeForce(type, metadata))
        c2 == IF is_th THEN cell_style_row_header(c1, metadata) ELSE c1
        c3 == toggle(c2, "psp-align-right", AlignRightForce(is_th, numeric))
        c4 == toggle(c3, "psp-align-left", AlignLeftForce(is_th, numeric))
        c5 == toggle(c4, "psp-color-mode-bar", BarForce(metadata, numeric))
    IN  [bg |-> colors.bg, fg |-> colors.fg, classes |-> c5]

CleanCell == [bg |-> "", fg |-> "", classes |-> {}]

\* the first cell whose metadata is absent: reading metadata.column_header
\* on it throws and ends the pass
FirstAbsent ==
    IF \E c \in CellIds : cell_meta[c] = "absent"
    THEN CHOOSE c \in CellIds :
             /\ cell_meta[c] = "absent"
             /\ \A d \in CellIds : cell_meta[d] = "absent" => c <= d
    ELSE NumCells + 1

StyleInit ==
    /\ column_types \in TypeTables(DataColumns)
    /\ row_header_types \in TypeTables(RowHeaderLevels)
    /\ plugins \in PluginStores
    /\ cell_meta = [c \in CellIds |-> "value"]
    /\ cells = [c \in CellIds |-> CleanCell]
    /\ before_pass = [c \in CellIds |-> CleanCell]
    /\ pass = [n |-> 0, edits |-> 0, dirty |-> FALSE, repeat |-> FALSE,
               visited |-> <<>>, aborted |-> FALSE]

\* lines 26-70: one call of the listener over the row
table_cell_style_listener ==
    /\ pass.n < MaxPasses
    /\ cells' = [c \in CellIds |->
                    IF c < FirstAbsent THEN StyleCell(c, cells[c]) ELSE cells[c]]
    /\ before_pass' = cells
    /\ pass' = [pass EXCEPT !.n = pass.n + 1,
                            !.dirty = FALSE,
                            !.repeat = (pass.n > 0 /\ ~pass.dirty),
                            !.visited = [i \in 1..(FirstAbsent - 1) |-> i],
                            !.aborted = (FirstAbsent <= NumCells)]
    /\ UNCHANGED <<column_types, row_header_types, plugins, cell_meta>>
    /\ UNCHANGED <<selVars, saveVars, dragVars>>

Edited == pass' = [pass EXCEPT !.edits = pass.edits + 1, !.dirty = TRUE]

\* the viewer's schema changes between renders
SetColumnTypes ==
    /\ pass.edits < MaxEdits
    /\ \E t \in TypeTables(DataColumns) : t # column_types /\ column_types' = t
    /\ Edited
    /\ UNCHANGED <<row_header_types, plugins, cell_meta, cells, before_pass>>
    /\ UNCHANGED <<selVars, saveVars, dragVars>>

SetRowHeaderTypes ==
    /\ pass.edits < MaxEdits
    /\ \E t \in TypeTables(RowHeaderLevels) : t # row_header_types /\ row_header_types' = t
    /\ Edited
    /\ UNCHANGED <<column_types, plugins, cell_meta, cells, before_pass>>
    /\ UNCHANGED <<selVars, saveVars, dragVars>>

\* the configuration UI edits the per-column plugin configuration
SetPlugins ==
    /\ pass.edits < MaxEdits
    /\ \E p \in PluginStores : p # plugins /\ plugins' = p
    /\ Edited
    /\ UNCHANGED <<column_types, row_header_types, cell_meta, cells, before_pass>>
    /\ UNCHANGED <<selVars, saveVars, dragVars>>

\* the grid scrolls: a cell shows another value, or loses its metadata
SetMeta ==
    /\ pass.edits < MaxEdits
    /\ \E c \in CellIds, m \in MetaStates :
           m # cell_meta[c] /\ cell_meta' = [cell_meta EXCEPT ![c] = m]
    /\ Edited
    /\ UNCHANGED <<column_types, row_header_types, plugins, cells, before_pass>>
    /\ UNCHANGED <<selVars, saveVars, dragVars>>


(***************************************************************************)
(* Claims about table_cell_style_listener                                  *)
(***************************************************************************)

\* cells whose loop body ran in the last pass
Visited == {pass.visited[i] : i \in 1..Len(pass.visited)}

\* a pass has run and nothing it reads has changed since
Current == pass.n > 0 /\ ~pass.dirty

ResolvedType(c) == get_psp_type(getMeta(c))

Has(c, marker) == marker \in cells[c].classes

\* C3: after a pass, a visited cell is right-aligned exactly when it is not
\* a TH and its resolved type is integer or float, and left-aligned exactly
\* when it is not right-aligned.
C3_ExactlyOneAlignment ==
    Current =>
        \A c \in Visited :
            /\ Has(c, "psp-align-right")
                   <=> (tagName(c) # "TH" /\ ResolvedType(c) \in {"integer", "float"})
            /\ Has(c, "psp-align-left") <=> ~Has(c, "psp-align-right")

\* a numeric header cell next to a data cell that turned from left-aligned
\* to numeric
C3_Witness ==
    /\ Current
    /\ Visited = CellIds
    /\ ResolvedType(1) = "integer"
    /\ Has(1, "psp-align-left")
    /\ ResolvedType(2) = "float"
    /\ "psp-align-left" \in before_pass[2].classes
    /\ Has(2, "psp-align-right")

ClaimedMarkers ==
    {"psp-bool-type", "psp-align-left", "psp-align-right", "psp-color-mode-bar"}

AttributeSet(cell) ==
    [bg |-> cell.bg, fg |-> cell.fg, classes |-> cell.classes \cap ClaimedMarkers]

\* C4: a pass that repeats the previous one on unchanged inputs leaves
\* every cell's attributes as they were, and after any pass a visited cell
\* has the attributes the pass gives a clean cell.
C4_Idempotent ==
    /\ (pass.n >= 2 /\ pass.repeat) =>
           \A c \in CellIds : AttributeSet(cells[c]) = AttributeSet(before_pass[c])
    /\ Current =>
           \A c \in Visited :
               AttributeSet(cells[c]) = AttributeSet(StyleCell(c, CleanCell))

\* the second of two passes on the same inputs, over styled cells
C4_Witness ==
    /\ pass.n = 2
    /\ pass.repeat
    /\ Visited = CellIds
    /\ cells[2].fg = "pos_fg_color"
    /\ Has(2, "psp-align-right")
    /\ Has(1, "psp-bool-type")

\* C5: a pass visits every cell of the snapshot exactly once, whatever the
\* metadata of the cells, and a cell whose metadata is absent or whose type
\* lookup finds nothing has both colors cleared.
C5_PassVisitsEveryCell ==
    pass.n > 0 =>
        /\ \A c \in CellIds :
               Cardinality({i \in 1..Len(pass.visited) : pass.visited[i] = c}) = 1
        /\ Current =>
               \A c \in CellIds :
                   (cell_meta[c] = "absent" \/ ResolvedType(c) \notin Types \ {"other"})
                       => (cells[c].bg = "" /\ cells[c].fg = "")

\* C6: after a pass, a visited cell carries psp-bool-type exactly when its
\* resolved type is boolean and its user value is not null.
C6_BoolMarker ==
    Current =>
        \A c \in Visited :
            Has(c, "psp-bool-type")
                <=> (ResolvedType(c) = "boolean" /\ cell_meta[c] # "null")

\* a boolean cell whose value became null loses the marker
C6_Witness ==
    /\ Current
    /\ 2 \in Visited
    /\ ResolvedType(2) = "boolean"
    /\ cell_meta[2] = "null"
    /\ "psp-bool-type" \in before_pass[2].classes
    /\ ~Has(2, "psp-bool-type")

\* C7: after a pass, a visited cell carries psp-color-mode-bar exactly when
\* its resolved type is integer or float and the config stored under the
\* cell's column name has number_fg_mode = "bar"; a cell without a column
\* name never carries it.
C7_BarMarker ==
    Current =>
        \A c \in Visited :
            Has(c, "psp-color-mode-bar")
                <=> /\ ResolvedType(c) \in {"integer", "float"}
                    /\ HasColumnName(getMeta(c))
                    /\ column_name(getMeta(c)) \in DOMAIN plugins
                    /\ plugins[column_name(getMeta(c))].number_fg_mode = "bar"

(***************************************************************************)
(* Serialization: save                                                     *)
(***************************************************************************)

\* bounds
NumSaveCols == 1

SaveColumns == {ColumnNames[i] : i \in 1..NumSaveCols}

PosNegFields == {"pos_fg_color", "neg_fg_color", "pos_bg_color", "neg_bg_color"}
ColorFields == PosNegFields \cup {"color"}
ConfigFields == ColorFields \cup {"number_fg_mode", "column_size_override"}

\* JavaScript values of the configuration fields
Undefined == [kind |-> "undefined", items |-> <<>>]
Str(s) == [kind |-> "string", items |-> <<s>>]
Arr(items) == [kind |-> "array", items |-> items]

\* a color record as the configuration stores it
ColorRecord == Arr(<<"#ff0000", "#800000">>)

\* a per-column configuration object; a field it lacks reads as undefined
StoredConfigs ==
    {[f \in ConfigFields |->
         IF f \in S THEN ColorRecord
         ELSE IF f = "number_fg_mode" /\ bar THEN Str("bar")
         ELSE Undefined] : S \in SUBSET ColorFields, bar \in BOOLEAN}

EmptyConfig == [f \in ConfigFields |-> Undefined]

\* undefined (the symbol is not set) is modelled as the absent store
Stores == UNION {[K -> StoredConfigs] : K \in SUBSET SaveColumns}
Overrides == UNION {[K -> {Str("120")}] : K \in SUBSET SaveColumns}

Truthy(v) == v.kind # "undefined"

\* v?.[0]
First(v) ==
    IF v.kind = "array" /\ Len(v.items) > 0 THEN Str(v.items[1]) ELSE Undefined

\* lines 92-97
ReducePosNeg(config) ==
    IF Truthy(config["pos_fg_color"]) \/ Truthy(config["pos_bg_color"])
    THEN [f \in ConfigFields |-> IF f \in PosNegFields THEN First(config[f]) ELSE config[f]]
    ELSE config

\* lines 99-101
ReduceColor(config) ==
    IF Truthy(config["color"])
    THEN [config EXCEPT !["color"] = First(config["color"])]
    ELSE config

\* lines 87-104: the configuration the token holds for a column of the store
SavedConfig(col) == ReduceColor(ReducePosNeg(plugin_store[col]))

\* lines 78-120; JSON.parse(JSON.stringify(token)) drops the undefined
\* fields, which read as undefined again
SaveToken ==
    IF regular_table
    THEN [is_empty |-> FALSE,
          scroll_lock |-> is_scroll_lock,
          editable |-> is_edit_mode,
          columns |-> [col \in DOMAIN plugin_store \cup DOMAIN size_overrides |->
              LET config == IF col \in DOMAIN plugin_store
                            THEN SavedConfig(col) ELSE EmptyConfig
              IN  IF col \in DOMAIN size_overrides
                  THEN [config EXCEPT !["column_size_override"] = size_overrides[col]]
                  ELSE config]]
    ELSE [is_empty |-> TRUE, scroll_lock |-> FALSE, editable |-> FALSE,
          columns |-> [col \in {} |-> EmptyConfig]]

SaveInit ==
    /\ regular_table \in BOOLEAN
    /\ plugin_store \in Stores
    /\ size_overrides \in Overrides
    /\ is_scroll_lock = FALSE
    /\ is_edit_mode = FALSE
    /\ tokens = <<>>

save ==
    /\ Len(tokens) < 2
    /\ tokens' = Append(tokens, SaveToken)
    /\ UNCHANGED <<regular_table, plugin_store, size_overrides, is_scroll_lock, is_edit_mode>>
    /\ UNCHANGED <<selVars, styleVars, dragVars>>

\* the configuration UI sets or removes one field of a column's configuration
SetConfigField ==
    /\ \E col \in DOMAIN plugin_store, f \in ColorFields \cup {"number_fg_mode"} :
         \E cfg \in StoredConfigs :
           /\ cfg # plugin_store[col]
           /\ \A g \in ConfigFields \ {f} : cfg[g] = plugin_store[col][g]
           /\ plugin_store' = [plugin_store EXCEPT ![col] = cfg]
    /\ tokens' = <<>>
    /\ UNCHANGED <<regular_table, size_overrides, is_scroll_lock, is_edit_mode>>
    /\ UNCHANGED <<selVars, styleVars, dragVars>>

ToggleScrollLock ==
    /\ is_scroll_lock' = ~is_scroll_lock
    /\ tokens' = <<>>
    /\ UNCHANGED <<regular_table, plugin_store, size_overrides, is_edit_mode>>
    /\ UNCHANGED <<selVars, styleVars, dragVars>>

ToggleEditMode ==
    /\ is_edit_mode' = ~is_edit_mode
    /\ tokens' = <<>>
    /\ UNCHANGED <<regular_table, plugin_store, size_overrides, is_scroll_lock>>
    /\ UNCHANGED <<selVars, styleVars, dragVars>>

\* C8: the token of save() holds, for every column and every color field
\* whose stored value is a multi-element array, that array's first element,
\* whichever other color fields the column has; and a second save() returns
\* an equal token.
C8_SaveReducesColorArrays ==
    /\ (regular_table /\ Len(tokens) > 0) =>
           \A col \in DOMAIN plugin_store, f \in ColorFields :
               (plugin_store[col][f].kind = "array" /\ Len(plugin_store[col][f].items) > 1)
                   => tokens[Len(tokens)].columns[col][f]
                          = Str(plugin_store[col][f].items[1])
    /\ Len(tokens) = 2 => tokens[1] = tokens[2]

(***************************************************************************)
(* Legend dragging: enforceContainerBoundaries                             *)
(***************************************************************************)

\* bounds
MaxDrag == 2

margin == 10

LegendWidth == 4
LegendHeight == 2
ChartWidth == 26
ChartHeight == 25

\* widths the window can give the container; the smallest is too narrow
\* for the legend and its two margins
ChartWidths == {ChartWidth - 4, ChartWidth, ChartWidth + 2}

Rect(left, top, width, height) ==
    [left |-> left, top |-> top, right |-> left + width, bottom |-> top + height]

\* utils.isElementOverflowing(containerRect, innerElementRect, direction)
isElementOverflowing(containerRect, innerElementRect, direction) ==
    IF direction \in {"right", "bottom"}
    THEN containerRect[direction] < innerElementRect[direction]
    ELSE containerRect[direction] > innerElementRect[direction]

\* lines 57-62 for one boundary
Adjust(chartNodeRect, draggedLegendNodeRect, edge, offset) ==
    IF isElementOverflowing(chartNodeRect, draggedLegendNodeRect, edge)
    THEN offset - (draggedLegendNodeRect[edge] - chartNodeRect[edge])
    ELSE offset

enforceNoMargin(chartNodeRect, legendNodeRect, offsetX, offsetY) ==
    LET draggedLegendNodeRect ==
            [top |-> legendNodeRect.top + offsetY,
             right |-> legendNodeRect.right + offsetX,
             bottom |-> legendNodeRect.bottom + offsetY,
             left |-> legendNodeRect.left + offsetX]
        x == Adjust(chartNodeRect, draggedLegendNodeRect, "left",
                 Adjust(chartNodeRect, draggedLegendNodeRect, "right", offsetX))
        y == Adjust(chartNodeRect, draggedLegendNodeRect, "bottom",
                 Adjust(chartNodeRect, draggedLegendNodeRect, "top", offsetY))
    IN  <<x, y>>

\* lines 38-65
enforceContainerBoundaries(chartNodeRect, legendNodeRect, offsetX, offsetY) ==
    LET draggedLegendNodeRect ==
            [top |-> legendNodeRect.top + offsetY - margin,
             right |-> legendNodeRect.right + offsetX + margin,
             bottom |-> legendNodeRect.bottom + offsetY + margin,
             left |-> legendNodeRect.left + offsetX - margin]
        x == Adjust(chartNodeRect, draggedLegendNodeRect, "left",
                 Adjust(chartNodeRect, draggedLegendNodeRect, "right", offsetX))
        y == Adjust(chartNodeRect, draggedLegendNodeRect, "bottom",
                 Adjust(chartNodeRect, draggedLegendNodeRect, "top", offsetY))
    IN  <<x, y>>

Move(rect, dx, dy) ==
    [left |-> rect.left + dx, top |-> rect.top + dy,
     right |-> rect.right + dx, bottom |-> rect.bottom + dy]

NoDrag == [called |-> FALSE, chart |-> Rect(0, 0, 0, 0), legend |-> Rect(0, 0, 0, 0),
           dx |-> 0, dy |-> 0, x |-> 0, y |-> 0]

\* the legend starts pinned to the top right corner of the container
DragInit ==
    /\ chart = Rect(0, 0, ChartWidth, ChartHeight)
    /\ legend = Rect(ChartWidth - margin - LegendWidth, margin, LegendWidth, LegendHeight)
    /\ resize_registered = FALSE
    /\ last_drag = NoDrag

\* lines 18-23: the drag handler
Drag ==
    \E dx \in (-MaxDrag)..MaxDrag, dy \in (-MaxDrag)..MaxDrag :
        LET off == enforceContainerBoundaries(chart, legend, dx, dy)
        IN  /\ resize_registered' = TRUE
            /\ legend' = Move(legend, off[1], off[2])
            /\ last_drag' = [called |-> TRUE, chart |-> chart, legend |-> legend,
                             dx |-> dx, dy |-> dy, x |-> off[1], y |-> off[2]]
            /\ UNCHANGED chart
            /\ UNCHANGED <<selVars, styleVars, saveVars>>

\* lines 30-36: the window is resized; before the first drag the legend
\* keeps its distance to the right edge, afterwards the resize handler runs
Resize ==
    \E w \in ChartWidths :
        /\ w # chart.right
        /\ chart' = Rect(0, 0, w, ChartHeight)
        /\ IF resize_registered
           THEN LET off == enforceContainerBoundaries(chart', legend, 0, 0)
                IN  /\ legend' = Move(legend, off[1], off[2])
                    /\ last_drag' = [called |-> TRUE, chart |-> chart', legend |-> legend,
                                     dx |-> 0, dy |-> 0, x |-> off[1], y |-> off[2]]
           ELSE /\ legend' = Move(legend, w - chart.right, 0)
                /\ UNCHANGED last_drag
        /\ UNCHANGED resize_registered
        /\ UNCHANGED <<selVars, styleVars, saveVars>>

RightOverflow(d) == d.legend.right + d.dx + 10 > d.chart.right
LeftOverflow(d) == d.legend.left + d.dx - 10 < d.chart.left
TopOverflow(d) == d.legend.top + d.dy - 10 < d.chart.top
BottomOverflow(d) == d.legend.bottom + d.dy + 10 > d.chart.bottom

\* C9: when the dragged right edge plus the 10px margin passes the
\* container's right edge and the left edge does not overflow, the returned
\* x offset is dx minus the excess, which puts right edge plus margin on the
\* container's right edge; when no edge overflows the offsets come back
\* unchanged.
C9_RightEdgeClamp ==
    last_drag.called =>
        /\ (RightOverflow(last_drag) /\ ~LeftOverflow(last_drag)) =>
               /\ last_drag.x = last_drag.dx
                      - ((last_drag.legend.right + last_drag.dx + 10) - last_drag.chart.right)
               /\ last_drag.legend.right + last_drag.x + 10 = last_drag.chart.right
        /\ (~RightOverflow(last_drag) /\ ~LeftOverflow(last_drag)
                /\ ~TopOverflow(last_drag) /\ ~BottomOverflow(last_drag)) =>
               (last_drag.x = last_drag.dx /\ last_drag.y = last_drag.dy)

\* a drag of 2px to the right from 1px short of the right edge is cut to 1px
C9_Witness ==
    /\ last_drag.called
    /\ last_drag.dx = 2
    /\ last_drag.x = 1
    /\ RightOverflow(last_drag)
    /\ ~LeftOverflow(last_drag)
    /\ legend.right + 10 = chart.right

(***************************************************************************)
(* Specifications                                                          *)
(***************************************************************************)

StyleIdle ==
    /\ column_types = <<>>
    /\ row_header_types = <<>>
    /\ plugins = <<>>
    /\ cell_meta = <<>>
    /\ cells = <<>>
    /\ before_pass = <<>>
    /\ pass = [n |-> 0, edits |-> 0, dirty |-> FALSE, repeat |-> FALSE,
               visited |-> <<>>, aborted |-> FALSE]

SaveIdle ==
    /\ regular_table = FALSE
    /\ plugin_store = <<>>
    /\ size_overrides = <<>>
    /\ is_scroll_lock = FALSE
    /\ is_edit_mode = FALSE
    /\ tokens = <<>>

\* sequential clicks on the grid
Init == SelInit /\ StyleIdle /\ SaveIdle /\ DragInit

Next == ClickSeq \/ ResumeConfig \/ ResumeDraw

Spec == Init /\ [][Next]_vars

\* clicks that may arrive while earlier invocations are suspended
NextAsync == Click \/ ResumeConfig \/ ResumeDraw

SpecAsync == Init /\ [][NextAsync]_vars

\* render passes of the grid
InitStyle == StyleInit /\ SelInit /\ SaveIdle /\ DragInit

NextStyle ==
    \/ table_cell_style_listener
    \/ SetColumnTypes
    \/ SetRowHeaderTypes
    \/ SetPlugins
    \/ SetMeta

SpecStyle == InitStyle /\ [][NextStyle]_vars

\* saving the plugin state
InitSave == SaveInit /\ SelInit /\ StyleIdle /\ DragInit

NextSave == save \/ SetConfigField \/ ToggleScrollLock \/ ToggleEditMode

SpecSave == InitSave /\ [][NextSave]_vars

\* dragging the legend
InitDrag == DragInit /\ SelInit /\ StyleIdle /\ SaveIdle

NextDrag == Drag \/ Resize

SpecDrag == InitDrag /\ [][NextDrag]_vars

====
